---- MODULE Spec2Model ----
(***************************************************************************)
(* State-machine model of the compute engine of voxel_renderer_rs:         *)
(* typed buffers (src/src/engine/buffer.rs), compiled programs             *)
(* (src/src/engine/program.rs) and the task builder / task / task future   *)
(* protocol (src/src/engine/task.rs) on top of vulkano's command buffers   *)
(* and lazily flushed GPU futures.                                         *)
(***************************************************************************)
EXTENDS Integers, Sequences, FiniteSets, TLC

VARIABLES
    allocs,     \* vk::Buffer allocations: Seq of [loc, data]
    handles,    \* live Buffer<T, Location> values: Seq of [alloc, off, len, loc]
    programs,   \* compiled Program values, by shader kind
    builder,    \* the TaskBuilder being recorded: [live, cmds]
    tasks,      \* built Task values: Seq of command sequences
    futures,    \* TaskFuture values ever returned by submit: Seq of [task, state]
                \* state: "pending", "flushed", "done" (waited or dropped), "failed"
    queue,      \* submissions handed to the device's compute queue
    pc,         \* host thread: "run", "waiting", "dropping" or "panicked"
    call        \* the last host call: operation, arguments, result

vars == <<allocs, handles, programs, builder, tasks, futures, queue, pc, call>>

----------------------------------------------------------------------------
(* Bounds of the model.                                                    *)

MaxLen == 2        \* longest buffer a caller allocates
MaxAllocs == 1     \* allocations made by the buffer operations
MaxHandles == 3    \* live handles made by the buffer operations
MaxOps == 2        \* copy_buffer / run_program calls recorded, over all sequences
MaxTasks == 2      \* built tasks
MaxFutures == 2    \* submissions
NestLen == 4       \* length of the buffer that nested views are cut from

----------------------------------------------------------------------------
(* Values.                                                                 *)

Min(a, b) == IF a <= b THEN a ELSE b

\* vec![v, v + 1, ...]: the data the callers write (tests use 1.., 5.., 9..)
Ramp(v, k) == [i \in 1..k |-> v + i - 1]

DataStarts == {1, 5}

\* data vectors a caller passes to write / from_vec, one longer than any view
WriteData == {Ramp(v, k) : v \in DataStarts, k \in 0..(MaxLen + 1)}

Locations == {"Cpu", "Gpu"}

NoCall ==
    [op |-> "none", h |-> 0, h2 |-> 0, data |-> <<>>, prog |-> "", binds |-> <<>>,
     comp |-> "", res |-> "", val |-> <<>>]

----------------------------------------------------------------------------
(* Buffers: src/src/engine/buffer.rs                                       *)

\* Buffer::len: the element count of the handle's Subbuffer
BufLen(h) == h.len

\* mutant of ViewOf: the offset of a sliced Subbuffer is ignored
ViewOfBase(mem, h) == SubSeq(mem[h.alloc].data, 1, h.len)

\* the elements a handle's Subbuffer denotes inside its allocation
ViewOf(mem, h) == SubSeq(mem[h.alloc].data, h.off + 1, h.off + h.len)

\* vulkano's per-range GPU lock: the range is used by a flushed, unfinished
\* submission
Overlaps(a, b) ==
    /\ a.alloc = b.alloc
    /\ a.off < b.off + b.len
    /\ b.off < a.off + a.len

CmdViews(c) ==
    IF c.kind = "copy" THEN {c.src, c.dst}
    ELSE IF c.kind = "bind_descriptors" THEN {b.view : b \in c.set}
    ELSE {}

GpuLocked(q, h) ==
    \E i \in 1..Len(q) : \E j \in 1..Len(q[i].cmds) :
        \E v \in CmdViews(q[i].cmds[j]) : Overlaps(v, h)

\* create_vk_buffer: a fresh allocation of len elements (the tests read
\* zeroes from a buffer that was never written)
CreateVkBuffer(loc, len) == [loc |-> loc, data |-> [i \in 1..len |-> 0]]

\* <[T]>::copy_from_slice: panics unless both slices have the same length
CopyFromSlice(dst, src) ==
    IF Len(dst) # Len(src) THEN [panic |-> TRUE, out |-> dst]
    ELSE [panic |-> FALSE, out |-> src]

\* mutant of WriteSlice: the elements after the written prefix are cleared
WriteSliceClearsTail(view, data) ==
    LET n == Min(Len(data), Len(view))
        r == CopyFromSlice(SubSeq(view, 1, n), data)
    IN  [panic |-> r.panic, out |-> r.out \o [i \in 1..(Len(view) - n) |-> 0]]

\* guard[..min(data.len(), self.len())].copy_from_slice(data)
WriteSlice(view, data) ==
    LET n == Min(Len(data), Len(view))
        r == CopyFromSlice(SubSeq(view, 1, n), data)
    IN  [panic |-> r.panic, out |-> r.out \o SubSeq(view, n + 1, Len(view))]

\* mutant of StoreView: the write lands in a private copy of the range, so
\* the shared allocation keeps its elements
StoreViewPrivate(mem, h, view) == mem

\* the allocation's elements with the handle's range replaced by view
StoreView(mem, h, view) ==
    [mem EXCEPT ![h.alloc].data =
        [i \in 1..Len(@) |->
            IF i > h.off /\ i <= h.off + h.len THEN view[i - h.off] ELSE @[i]]]

Host == pc = "run"

\* mutant of BufferNew: the length is not compared with zero
BufferNewUnchecked(loc, len, devOk) ==
    /\ Host
    /\ Len(allocs) < MaxAllocs
    /\ Len(handles) < MaxHandles
    /\ LET res == IF ~devOk THEN "VulkanBufferCreationFailed" ELSE "Ok"
       IN  /\ allocs' = IF res = "Ok" THEN Append(allocs, CreateVkBuffer(loc, len))
                        ELSE allocs
           /\ handles' = IF res = "Ok"
                         THEN Append(handles, [alloc |-> Len(allocs) + 1, off |-> 0,
                                               len |-> len, loc |-> loc])
                         ELSE handles
           /\ call' = [NoCall EXCEPT !.op = "new", !.data = <<len>>, !.prog = loc,
                                     !.res = res,
                                     !.h = IF res = "Ok" THEN Len(handles) + 1 ELSE 0]
    /\ UNCHANGED <<programs, builder, tasks, futures, queue, pc>>

\* Buffer<T, Cpu>::new and Buffer<T, Gpu>::new
BufferNew(loc, len, devOk) ==
    /\ Host
    /\ Len(allocs) < MaxAllocs
    /\ Len(handles) < MaxHandles
    /\ LET res == IF len = 0 THEN "LengthIsZero"
                  ELSE IF ~devOk THEN "VulkanBufferCreationFailed"
                  ELSE "Ok"
       IN  /\ allocs' = IF res = "Ok" THEN Append(allocs, CreateVkBuffer(loc, len))
                        ELSE allocs
           /\ handles' = IF res = "Ok"
                         THEN Append(handles, [alloc |-> Len(allocs) + 1, off |-> 0,
                                               len |-> len, loc |-> loc])
                         ELSE handles
           /\ call' = [NoCall EXCEPT !.op = "new", !.data = <<len>>, !.prog = loc,
                                     !.res = res,
                                     !.h = IF res = "Ok" THEN Len(handles) + 1 ELSE 0]
    /\ UNCHANGED <<programs, builder, tasks, futures, queue, pc>>

\* Buffer<T, Cpu>::from_vec: new(data.len()) then write(data)
FromVec(data, devOk) ==
    /\ Host
    /\ Len(allocs) < MaxAllocs
    /\ Len(handles) < MaxHandles
    /\ LET len == Len(data)
           res == IF len = 0 THEN "LengthIsZero"
                  ELSE IF ~devOk THEN "VulkanBufferCreationFailed"
                  ELSE "Ok"
           fresh == CreateVkBuffer("Cpu", len)
           w == WriteSlice(fresh.data, data)
       IN  /\ allocs' = IF res = "Ok" THEN Append(allocs, [fresh EXCEPT !.data = w.out])
                        ELSE allocs
           /\ handles' = IF res = "Ok"
                         THEN Append(handles, [alloc |-> Len(allocs) + 1, off |-> 0,
                                               len |-> len, loc |-> "Cpu"])
                         ELSE handles
           /\ call' = [NoCall EXCEPT !.op = "from_vec", !.data = data, !.prog = "Cpu",
                                     !.res = res,
                                     !.h = IF res = "Ok" THEN Len(handles) + 1 ELSE 0]
    /\ UNCHANGED <<programs, builder, tasks, futures, queue, pc>>

\* mutant of SubResult: the upper bound is compared with >=, so a range that
\* ends at the buffer's end is refused
SubResultOffByOne(h, start, end) ==
    IF start >= end THEN "RangeIsEmpty"
    ELSE IF end >= BufLen(h) THEN "RangeIsOutOfBounds"
    ELSE "Ok"

\* mutant of SubResult: the emptiness check compares with >, so start = end
\* passes
SubResultAllowsEmpty(h, start, end) ==
    IF start > end THEN "RangeIsEmpty"
    ELSE IF end > BufLen(h) THEN "RangeIsOutOfBounds"
    ELSE "Ok"

\* Buffer::sub: the checks of the range, in the order the code makes them
SubResult(h, start, end) ==
    IF start >= end THEN "RangeIsEmpty"
    ELSE IF end > BufLen(h) THEN "RangeIsOutOfBounds"
    ELSE "Ok"

\* mutant of Slice: the range is taken from the start of the allocation, not
\* from the start of the handle it is cut from
SliceFromBase(h, start, end) ==
    [alloc |-> h.alloc, off |-> start, len |-> end - start, loc |-> h.loc]

\* mutant of Slice: the view loses the location of its parent and is handed
\* out as a Cpu buffer
SliceAsCpu(h, start, end) ==
    [alloc |-> h.alloc, off |-> h.off + start, len |-> end - start, loc |-> "Cpu"]

\* self.buffer.clone().slice(start..end): a view relative to the handle's own
Slice(h, start, end) ==
    [alloc |-> h.alloc, off |-> h.off + start, len |-> end - start, loc |-> h.loc]

Sub(i, start, end) ==
    /\ Host
    /\ Len(handles) < MaxHandles
    /\ LET h == handles[i]
           res == SubResult(h, start, end)
       IN  /\ handles' = IF res = "Ok" THEN Append(handles, Slice(h, start, end))
                         ELSE handles
           /\ call' = [NoCall EXCEPT !.op = "sub", !.h = i, !.data = <<start, end>>,
                                     !.res = res,
                                     !.h2 = IF res = "Ok" THEN Len(handles) + 1 ELSE 0]
    /\ UNCHANGED <<allocs, programs, builder, tasks, futures, queue, pc>>

\* #[derive(Clone)] on Buffer: a second handle onto the same Subbuffer
Clone(i) ==
    /\ Host
    /\ Len(handles) < MaxHandles
    /\ handles' = Append(handles, handles[i])
    /\ call' = [NoCall EXCEPT !.op = "clone", !.h = i, !.h2 = Len(handles) + 1,
                              !.res = "Ok"]
    /\ UNCHANGED <<allocs, programs, builder, tasks, futures, queue, pc>>

\* Buffer<T, Cpu>::read
Read(i) ==
    /\ Host
    /\ handles[i].loc = "Cpu"
    /\ LET h == handles[i]
           ok == ~GpuLocked(queue, h)
       IN  call' = [NoCall EXCEPT !.op = "read", !.h = i,
                                  !.res = IF ok THEN "Ok" ELSE "VulkanBufferReadFailed",
                                  !.val = IF ok THEN ViewOf(allocs, h) ELSE <<>>]
    /\ UNCHANGED <<allocs, handles, programs, builder, tasks, futures, queue, pc>>

\* Buffer<T, Cpu>::write
Write(i, data) ==
    /\ Host
    /\ handles[i].loc = "Cpu"
    /\ LET h == handles[i]
           ok == ~GpuLocked(queue, h)
           w == WriteSlice(ViewOf(allocs, h), data)
           res == IF ~ok THEN "VulkanBufferWriteFailed"
                  ELSE IF w.panic THEN "panic"
                  ELSE "Ok"
       IN  /\ allocs' = IF res = "Ok" THEN StoreView(allocs, h, w.out) ELSE allocs
           /\ pc' = IF res = "panic" THEN "panicked" ELSE pc
           /\ call' = [NoCall EXCEPT !.op = "write", !.h = i, !.data = data,
                                     !.res = res]
    /\ UNCHANGED <<handles, programs, builder, tasks, futures, queue>>

----------------------------------------------------------------------------
(* Programs: src/src/engine/program.rs                                     *)

\* the resource bindings a compiled shader declares in descriptor set 0:
\* "doubler" is the shader of tests::run_program (layout(binding = 0) buffer),
\* "nobind" the shader of program.rs tests::compile (no resource at all)
DeclaredSlots(prog) == IF prog = "doubler" THEN {0} ELSE {}

\* program.compute_pipeline.layout().set_layouts(): one layout per descriptor
\* set the shader uses, none when it declares no resource
SetLayouts(prog) == IF DeclaredSlots(prog) = {} THEN <<>> ELSE <<DeclaredSlots(prog)>>

\* the shader sources the callers compile
ShaderKinds == {"doubler", "nobind"}

\* answers of the compiler to compile_into_spirv: a CompilationError, success,
\* success with warnings, any other shaderc::Error
CompileAnswers == {"CompilationError", "Ok", "OkWithWarnings", "OtherError"}

\* Program::new, up to the result it returns: the steps in the order of the
\* code, each with the answer (1 = success, 0 = failure) of the library
ProgramNewResult(comp, module, entry, layoutInfo, layout, pipeline) ==
    IF comp = "CompilationError" THEN "CompilationFailed"
    ELSE IF comp = "OtherError" THEN "panic"          \* panic!("unknown SPIR-V ..")
    ELSE IF module = 0 THEN "VulkanShaderModuleCreationFailed"
    ELSE IF entry = 0 THEN "EntryPointNotFound"
    ELSE IF layoutInfo = 0 THEN "panic"  \* into_pipeline_layout_create_info().unwrap()
    ELSE IF layout = 0 THEN "VulkanPipelineLayoutCreationFailed"
    ELSE IF pipeline = 0 THEN "VulkanPipelineCreationFailed"
    ELSE "Ok"

\* Program::new
ProgramNew(kind, comp, module, entry, layoutInfo, layout, pipeline) ==
    /\ Host
    /\ LET res == ProgramNewResult(comp, module, entry, layoutInfo, layout, pipeline)
       IN  /\ programs' = IF res = "Ok" THEN programs \cup {kind} ELSE programs
           /\ pc' = IF res = "panic" THEN "panicked" ELSE pc
           /\ call' = [NoCall EXCEPT !.op = "program_new", !.prog = kind,
                                     !.comp = comp,
                                     !.data = <<module, entry, layoutInfo, layout, pipeline>>,
                                     !.res = res,
                                     !.val = IF res = "Ok" /\ comp = "OkWithWarnings"
                                             THEN <<1>> ELSE <<>>]
    /\ UNCHANGED <<allocs, handles, builder, tasks, futures, queue>>

----------------------------------------------------------------------------
(* Task builder, task, task future: src/src/engine/task.rs                 *)

ViewRec(h) == [alloc |-> h.alloc, off |-> h.off, len |-> h.len]

NoBuilder == [live |-> FALSE, cmds |-> <<>>]

\* builder calls that recorded something, over the builder and the built tasks
OpCount(cmds) == Cardinality({j \in 1..Len(cmds) : cmds[j].kind \in {"copy", "dispatch"}})

RECURSIVE SumOps(_)
SumOps(ts) == IF ts = <<>> THEN 0 ELSE OpCount(Head(ts)) + SumOps(Tail(ts))

OpsRecorded == OpCount(builder.cmds) + SumOps(tasks)

\* TaskBuilder::new
BuilderNew ==
    /\ Host
    /\ ~builder.live
    /\ builder' = [live |-> TRUE, cmds |-> <<>>]
    /\ call' = [NoCall EXCEPT !.op = "builder_new", !.res = "Ok"]
    /\ UNCHANGED <<allocs, handles, programs, tasks, futures, queue, pc>>

\* vk::CopyBufferInfo::buffers(src, dst): one region of the smaller size
CopyRegionSize(src, dst) == Min(src.len, dst.len)

\* AutoCommandBufferBuilder::copy_buffer: the regions of one buffer must not
\* overlap
CopyBufferResult(src, dst) ==
    LET n == CopyRegionSize(src, dst)
    IN  IF Overlaps([src EXCEPT !.len = n], [dst EXCEPT !.len = n])
        THEN "VulkanCopyBufferFailed"
        ELSE "Ok"

\* TaskBuilder::copy_buffer
CopyBuffer(i, j) ==
    /\ Host
    /\ builder.live
    /\ OpsRecorded < MaxOps
    /\ LET src == handles[i]
           dst == handles[j]
           res == CopyBufferResult(src, dst)
           cmd == [kind |-> "copy", src |-> ViewRec(src), dst |-> ViewRec(dst),
                   size |-> CopyRegionSize(src, dst)]
       IN  /\ builder' = IF res = "Ok"
                         THEN [builder EXCEPT !.cmds = Append(@, cmd)]
                         ELSE NoBuilder
           /\ call' = [NoCall EXCEPT !.op = "copy_buffer", !.h = i, !.h2 = j,
                                     !.res = res]
    /\ UNCHANGED <<allocs, handles, programs, tasks, futures, queue, pc>>

\* Buffer::bind(binding) for each element of the bindings vector
BindSet(binds) ==
    {[slot |-> binds[k][1], view |-> ViewRec(handles[binds[k][2]])] : k \in 1..Len(binds)}

\* a usize of a 64-bit host as two 32-bit limbs: the value is hi * 2^32 + lo
Usize(hi, lo) == [hi |-> hi, lo |-> lo]

\* n as u32: the cast keeps the low 32 bits and drops the rest
AsU32(n) == n.lo

\* the counts (n, 1, 1) of the callers in this repository
WgOf(n) == <<Usize(0, n), Usize(0, 1), Usize(0, 1)>>

\* [wg_size.0 as u32, wg_size.1 as u32, wg_size.2 as u32]
GroupCounts(wg_size) == <<AsU32(wg_size[1]), AsU32(wg_size[2]), AsU32(wg_size[3])>>

\* the device's maxComputeWorkGroupCount, which dispatch checks each count
\* against (the least value a Vulkan device may report)
MaxComputeWorkGroupCount == 65535

\* caller-supplied counts: those of the callers, one with each count of 2^32
\* or more, and one above the device limit
WgSizes(n) ==
    {WgOf(n),
     <<Usize(1, n), Usize(0, 1), Usize(0, 1)>>,
     <<Usize(0, n), Usize(1, 1), Usize(0, 1)>>,
     <<Usize(0, n), Usize(0, 1), Usize(1, 0)>>,
     <<Usize(0, MaxComputeWorkGroupCount + 1), Usize(0, 1), Usize(0, 1)>>}

\* TaskBuilder::run_program, up to the result it returns
RunProgramResult(prog, wg_size, binds) ==
    IF Len(SetLayouts(prog)) = 0
    THEN "panic"                                     \* set_layouts().get(0).unwrap()
    ELSE IF \E b \in BindSet(binds) : b.slot \notin SetLayouts(prog)[1]
    THEN "VulkanDescriptorSetCreationFailed"         \* PersistentDescriptorSet::new
    ELSE IF \E s \in DeclaredSlots(prog) : \A b \in BindSet(binds) : b.slot # s
    THEN "VulkanDispatchFailed"                      \* dispatch: a declared slot is unbound
    ELSE IF \E k \in 1..3 : GroupCounts(wg_size)[k] > MaxComputeWorkGroupCount
    THEN "VulkanDispatchFailed"                      \* dispatch: a count above the limit
    ELSE "Ok"

\* mutant of RunProgram: the builder is borrowed, so after a failed dispatch
\* it stays open with the pipeline bind and the descriptor bind recorded
RunProgramKeepsPartial(prog, wg_size, binds) ==
    /\ Host
    /\ builder.live
    /\ OpsRecorded < MaxOps
    /\ LET res == RunProgramResult(prog, wg_size, binds)
           cmds == <<[kind |-> "bind_pipeline", prog |-> prog],
                     [kind |-> "bind_descriptors", set |-> BindSet(binds)],
                     [kind |-> "dispatch", wg |-> GroupCounts(wg_size)]>>
       IN  /\ builder' = IF res = "Ok"
                         THEN [builder EXCEPT !.cmds = @ \o cmds]
                         ELSE IF res = "VulkanDispatchFailed"
                         THEN [builder EXCEPT !.cmds = @ \o SubSeq(cmds, 1, 2)]
                         ELSE builder
           /\ pc' = IF res = "panic" THEN "panicked" ELSE pc
           /\ call' = [NoCall EXCEPT !.op = "run_program", !.prog = prog,
                                     !.data = <<wg_size[1].hi, wg_size[1].lo,
                                                wg_size[2].hi, wg_size[2].lo,
                                                wg_size[3].hi, wg_size[3].lo>>,
                                     !.binds = binds, !.res = res]
    /\ UNCHANGED <<allocs, handles, programs, tasks, futures, queue>>

\* TaskBuilder::run_program(mut self, ..): the builder is moved in, and
\* returned only with Ok
RunProgram(prog, wg_size, binds) ==
    /\ Host
    /\ builder.live
    /\ OpsRecorded < MaxOps
    /\ LET res == RunProgramResult(prog, wg_size, binds)
           cmds == <<[kind |-> "bind_pipeline", prog |-> prog],
                     [kind |-> "bind_descriptors", set |-> BindSet(binds)],
                     [kind |-> "dispatch", wg |-> GroupCounts(wg_size)]>>
       IN  /\ builder' = IF res = "Ok"
                         THEN [builder EXCEPT !.cmds = @ \o cmds]
                         ELSE NoBuilder
           /\ pc' = IF res = "panic" THEN "panicked" ELSE pc
           /\ call' = [NoCall EXCEPT !.op = "run_program", !.prog = prog,
                                     !.data = <<wg_size[1].hi, wg_size[1].lo,
                                                wg_size[2].hi, wg_size[2].lo,
                                                wg_size[3].hi, wg_size[3].lo>>,
                                     !.binds = binds, !.res = res]
    /\ UNCHANGED <<allocs, handles, programs, tasks, futures, queue>>

\* mutant of Build: build borrows the builder, which stays open for recording
BuildKeepsBuilder ==
    /\ Host
    /\ builder.live
    /\ Len(tasks) < MaxTasks
    /\ tasks' = Append(tasks, builder.cmds)
    /\ builder' = builder
    /\ call' = [NoCall EXCEPT !.op = "build", !.h = Len(tasks) + 1, !.res = "Ok"]
    /\ UNCHANGED <<allocs, handles, programs, futures, queue, pc>>

\* mutant of Build: a builder with nothing recorded is refused
BuildRejectsEmpty ==
    /\ Host
    /\ builder.live
    /\ Len(tasks) < MaxTasks
    /\ tasks' = IF builder.cmds = <<>> THEN tasks ELSE Append(tasks, builder.cmds)
    /\ builder' = NoBuilder
    /\ call' = [NoCall EXCEPT !.op = "build",
                              !.h = IF builder.cmds = <<>> THEN 0 ELSE Len(tasks) + 1,
                              !.res = IF builder.cmds = <<>>
                                      THEN "VulkanCommandBufferBuildFailed" ELSE "Ok"]
    /\ UNCHANGED <<allocs, handles, programs, futures, queue, pc>>

\* TaskBuilder::build(self): the builder is moved into the Task
Build ==
    /\ Host
    /\ builder.live
    /\ Len(tasks) < MaxTasks
    /\ tasks' = Append(tasks, builder.cmds)
    /\ builder' = NoBuilder
    /\ call' = [NoCall EXCEPT !.op = "build", !.h = Len(tasks) + 1, !.res = "Ok"]
    /\ UNCHANGED <<allocs, handles, programs, futures, queue, pc>>

\* Task::submit: sync::now(device).then_execute(queue, command_buffer) builds
\* a future; vulkano hands nothing to the queue before the future is flushed
Submit(t) ==
    /\ Host
    /\ Len(futures) < MaxFutures
    /\ futures' = Append(futures, [task |-> t, state |-> "pending"])
    /\ call' = [NoCall EXCEPT !.op = "submit", !.h = t, !.h2 = Len(futures) + 1,
                              !.res = "Ok"]
    /\ UNCHANGED <<allocs, handles, programs, builder, tasks, queue, pc>>

\* mutant of CommandBufferUsage: a command buffer that may be submitted once
CommandBufferUsageOnce == "OneTimeSubmit"

\* vk::CommandBufferUsage of TaskBuilder::new
CommandBufferUsage == "MultipleSubmit"

\* the queue's check of a command buffer when the future f of task t is
\* flushed, with fs the futures made so far and q the queue
FlushResultIn(fs, q, f, t) ==
    LET before == \E g \in 1..Len(fs) :
                      g # f /\ fs[g].task = t /\ fs[g].state # "pending"
        inUse == \E k \in 1..Len(q) : q[k].task = t /\ q[k].ip < Len(q[k].cmds)
    IN  IF CommandBufferUsage = "OneTimeSubmit" /\ before
        THEN "VulkanFutureFenceFlushFailed"
        ELSE IF CommandBufferUsage = "MultipleSubmit" /\ inUse
        THEN "VulkanFutureFenceFlushFailed"
        ELSE "Ok"

FlushResult(f) == FlushResultIn(futures, queue, f, futures[f].task)

\* mutant of Awaits: every submission is chained after the earlier ones
AwaitsEarlier(f) == {g \in 1..(f - 1) : futures[g].state = "pending"}

\* the futures a submission is chained after: vk::sync::now(device), none
Awaits(f) == {}

\* the submission of future f: the command buffer of task t, not yet started
SubmissionFor(f, t, cmds) ==
    [fut |-> f, task |-> t, cmds |-> cmds, ip |-> 0, prog |-> "", set |-> {}]

Submission(f) == SubmissionFor(f, futures[f].task, tasks[futures[f].task])

RECURSIVE SubmissionsOf(_)
SubmissionsOf(fs) ==
    IF fs = {} THEN <<>>
    ELSE LET g == CHOOSE x \in fs : \A y \in fs : x <= y
         IN  <<Submission(g)>> \o SubmissionsOf(fs \ {g})

\* flushing a future flushes the futures it is chained after, then itself
Flush(f) == queue \o SubmissionsOf(Awaits(f) \cup {f})

Flushed(fs, f) ==
    [g \in 1..Len(fs) |->
        IF g = f \/ g \in Awaits(f) THEN [fs[g] EXCEPT !.state = "flushed"] ELSE fs[g]]

\* TaskFuture::wait, first half: then_signal_fence_and_flush() hands the
\* command buffer to the queue; the host then blocks in wait(None)
Wait(f) ==
    /\ Host
    /\ futures[f].state = "pending"
    /\ LET res == FlushResult(f)
       IN  /\ queue' = IF res = "Ok" THEN Flush(f) ELSE queue
           /\ futures' = IF res = "Ok" THEN Flushed(futures, f)
                         ELSE [futures EXCEPT ![f].state = "failed"]
           /\ pc' = IF res = "Ok" THEN "waiting" ELSE pc
           /\ call' = [NoCall EXCEPT !.op = "wait", !.h = f,
                                     !.res = IF res = "Ok" THEN "blocked" ELSE res]
    /\ UNCHANGED <<allocs, handles, programs, builder, tasks>>

\* mutant of FenceSignaled: the wait returns as soon as the submission is queued
FenceSignaledAtOnce(sub) == sub.ip >= 0

\* the fence of a submission signals when all its commands have executed
FenceSignaled(sub) == sub.ip = Len(sub.cmds)

Finished(sub) == sub.ip = Len(sub.cmds)

\* TaskFuture::wait, second half: the fence signalled, finished submissions
\* are cleaned up and wait returns Ok
WaitReturn ==
    /\ pc = "waiting"
    /\ \E k \in 1..Len(queue) :
          /\ queue[k].fut = call.h
          /\ FenceSignaled(queue[k])
    /\ queue' = SelectSeq(queue, LAMBDA sub : ~Finished(sub))
    /\ futures' = [g \in 1..Len(futures) |->
                      IF g = call.h \/ \E k \in 1..Len(queue) :
                                          queue[k].fut = g /\ Finished(queue[k])
                      THEN [futures[g] EXCEPT !.state = "done"]
                      ELSE futures[g]]
    /\ pc' = "run"
    /\ call' = [call EXCEPT !.res = "Ok"]
    /\ UNCHANGED <<allocs, handles, programs, builder, tasks>>

\* mutant of FutureDrop: the dropped future is discarded without a flush
FutureDropDiscards(f) ==
    /\ Host
    /\ futures[f].state = "pending"
    /\ futures' = [futures EXCEPT ![f].state = "failed"]
    /\ call' = [NoCall EXCEPT !.op = "drop", !.h = f, !.res = "Ok"]
    /\ UNCHANGED <<allocs, handles, programs, builder, tasks, queue, pc>>

\* a TaskFuture dropped without wait: the boxed command-buffer future flushes
\* itself and blocks until the queue is idle
FutureDrop(f) ==
    /\ Host
    /\ futures[f].state = "pending"
    /\ LET res == FlushResult(f)
       IN  /\ queue' = IF res = "Ok" THEN Flush(f) ELSE queue
           /\ futures' = IF res = "Ok" THEN Flushed(futures, f)
                         ELSE [futures EXCEPT ![f].state = "failed"]
           /\ pc' = IF res = "Ok" THEN "dropping" ELSE "panicked"
           /\ call' = [NoCall EXCEPT !.op = "drop", !.h = f,
                                     !.res = IF res = "Ok" THEN "blocked" ELSE "panic"]
    /\ UNCHANGED <<allocs, handles, programs, builder, tasks>>

DropReturn ==
    /\ pc = "dropping"
    /\ \A k \in 1..Len(queue) : Finished(queue[k])
    /\ queue' = <<>>
    /\ futures' = [g \in 1..Len(futures) |->
                      IF g = call.h \/ \E k \in 1..Len(queue) : queue[k].fut = g
                      THEN [futures[g] EXCEPT !.state = "done"]
                      ELSE futures[g]]
    /\ pc' = "run"
    /\ call' = [call EXCEPT !.res = "Ok"]
    /\ UNCHANGED <<allocs, handles, programs, builder, tasks>>

----------------------------------------------------------------------------
(* The combinators submit_and_wait and build_submit_and_wait, with the     *)
(* answers of the device (1 = success, 0 = failure) as inputs.             *)

Answers == {0, 1}

\* Task::submit: then_execute(..).map_err(|_| TaskSubmissionFailed)
SubmitResult(subOk) == IF subOk = 1 THEN "Ok" ELSE "TaskSubmissionFailed"

\* TaskFuture::wait, then_signal_fence_and_flush().map_err(..)
FenceFlushResult(fs, q, f, t, flushOk) ==
    IF flushOk = 0 THEN "VulkanFutureFenceFlushFailed" ELSE FlushResultIn(fs, q, f, t)

\* TaskBuilder::build: builder.build().map_err(|_| VulkanCommandBufferBuildFailed)
BuildResult(buildOk) == IF buildOk = 1 THEN "Ok" ELSE "VulkanCommandBufferBuildFailed"

\* mutant of SubmitAndWaitResult: the result of the wait is dropped
SubmitAndWaitSwallows(sres, wres) == IF sres # "Ok" THEN sres ELSE "Ok"

\* self.submit()?.wait()?; Ok(())
SubmitAndWaitResult(sres, wres) ==
    IF sres # "Ok" THEN sres
    ELSE IF wres # "Ok" THEN wres
    ELSE "Ok"

\* self.build()?.submit_and_wait()?; Ok(())
BuildSubmitAndWaitResult(bres, swres) ==
    IF bres # "Ok" THEN bres
    ELSE IF swres # "Ok" THEN swres
    ELSE "Ok"

\* submit of the task t with commands cmds, then the first half of wait on the
\* future it returned; op is the combinator the caller called and answers the
\* device's answers to it
SubmitThenWait(op, t, cmds, answers, subOk, flushOk) ==
    LET sres == SubmitResult(subOk)
        f == Len(futures) + 1
        made == Append(futures, [task |-> t, state |-> "pending"])
        fres == FenceFlushResult(made, queue, f, t, flushOk)
        wrap(r) == IF op = "build_submit_and_wait"
                   THEN BuildSubmitAndWaitResult("Ok", r)
                   ELSE r
    IN  IF sres # "Ok"
        THEN /\ futures' = futures
             /\ queue' = queue
             /\ pc' = pc
             /\ call' = [NoCall EXCEPT !.op = op, !.h2 = t, !.data = answers,
                                       !.res = wrap(SubmitAndWaitResult(sres, "Ok"))]
        ELSE IF fres # "Ok"
        THEN /\ futures' = [made EXCEPT ![f].state = "failed"]
             /\ queue' = queue
             /\ pc' = pc
             /\ call' = [NoCall EXCEPT !.op = op, !.h = f, !.h2 = t,
                                       !.data = answers,
                                       !.res = wrap(SubmitAndWaitResult(sres, fres))]
        ELSE /\ futures' = [made EXCEPT ![f].state = "flushed"]
             /\ queue' = Append(queue, SubmissionFor(f, t, cmds))
             /\ pc' = "waiting"
             /\ call' = [NoCall EXCEPT !.op = op, !.h = f, !.h2 = t,
                                       !.data = answers, !.res = "blocked"]

\* Task::submit_and_wait, up to the point where the host blocks
SubmitAndWait(t, subOk, flushOk) ==
    /\ Host
    /\ Len(futures) < MaxFutures
    /\ SubmitThenWait("submit_and_wait", t, tasks[t], <<subOk, flushOk>>, subOk, flushOk)
    /\ UNCHANGED <<allocs, handles, programs, builder, tasks>>

\* TaskBuilder::build_submit_and_wait, up to the point where the host blocks
BuildSubmitAndWait(buildOk, subOk, flushOk) ==
    /\ Host
    /\ builder.live
    /\ Len(tasks) < MaxTasks
    /\ Len(futures) < MaxFutures
    /\ builder' = NoBuilder
    /\ LET bres == BuildResult(buildOk)
       IN  IF bres # "Ok"
           THEN /\ call' = [NoCall EXCEPT !.op = "build_submit_and_wait",
                                          !.data = <<buildOk, subOk, flushOk>>,
                                          !.res = BuildSubmitAndWaitResult(bres, "Ok")]
                /\ UNCHANGED <<tasks, futures, queue, pc>>
           ELSE /\ tasks' = Append(tasks, builder.cmds)
                /\ SubmitThenWait("build_submit_and_wait", Len(tasks) + 1, builder.cmds,
                                  <<buildOk, subOk, flushOk>>, subOk, flushOk)
    /\ UNCHANGED <<allocs, handles, programs>>

\* TaskFuture::wait, second half, when wait(None) fails: the submission is
\* lost and the combinator returns WaitFailed
WaitFail ==
    /\ pc = "waiting"
    /\ queue' = SelectSeq(queue, LAMBDA sub : sub.fut # call.h)
    /\ futures' = [futures EXCEPT ![call.h].state = "failed"]
    /\ pc' = "run"
    /\ call' = [call EXCEPT !.res =
                   IF call.op = "build_submit_and_wait"
                   THEN BuildSubmitAndWaitResult("Ok", SubmitAndWaitResult("Ok", "WaitFailed"))
                   ELSE SubmitAndWaitResult("Ok", "WaitFailed")]
    /\ UNCHANGED <<allocs, handles, programs, builder, tasks>>

----------------------------------------------------------------------------
(* The device: executes the commands of a flushed submission.              *)

\* mutant of NextCmd: the commands run last recorded first
NextCmdReversed(sub) == sub.cmds[Len(sub.cmds) - sub.ip]

\* the next command of a submission: commands run in recorded order
NextCmd(sub) == sub.cmds[sub.ip + 1]

\* mutant of ExecCopy: the destination's offset is ignored, the elements land
\* at the start of the destination's allocation
ExecCopyAtBase(mem, c) ==
    [mem EXCEPT ![c.dst.alloc].data =
        [p \in 1..Len(@) |->
            IF p <= c.size
            THEN mem[c.src.alloc].data[c.src.off + p]
            ELSE @[p]]]

\* vkCmdCopyBuffer: size elements from the source range to the destination
ExecCopy(mem, c) ==
    [mem EXCEPT ![c.dst.alloc].data =
        [p \in 1..Len(@) |->
            IF p > c.dst.off /\ p <= c.dst.off + c.size
            THEN mem[c.src.alloc].data[c.src.off + (p - c.dst.off)]
            ELSE @[p]]]

\* the doubler shader: data[gl_GlobalInvocationID.x] *= 2, local size 1,
\* one invocation per workgroup of the x count (uint elements: the values
\* reached here, at most MaxFutures doublings of a written value, never wrap);
\* no workgroup runs when a count is 0, and the dispatches executed here have
\* y and z counts of at most 1
ExecDispatch(mem, prog, set, wg) ==
    IF prog = "doubler" /\ (\E b \in set : b.slot = 0) /\ wg[2] * wg[3] # 0
    THEN LET v == (CHOOSE b \in set : b.slot = 0).view
         IN  [mem EXCEPT ![v.alloc].data =
                 [p \in 1..Len(@) |->
                     IF p > v.off /\ p <= v.off + Min(wg[1], v.len)
                     THEN @[p] * 2
                     ELSE @[p]]]
    ELSE mem

DeviceExec ==
    /\ queue # <<>>
    /\ ~Finished(queue[1])
    /\ LET sub == queue[1]
           c == NextCmd(sub)
       IN  /\ allocs' = IF c.kind = "copy" THEN ExecCopy(allocs, c)
                        ELSE IF c.kind = "dispatch"
                        THEN ExecDispatch(allocs, sub.prog, sub.set, c.wg)
                        ELSE allocs
           /\ queue' = [queue EXCEPT ![1] =
                           [sub EXCEPT !.ip = @ + 1,
                                       !.prog = IF c.kind = "bind_pipeline"
                                                THEN c.prog ELSE @,
                                       !.set = IF c.kind = "bind_descriptors"
                                               THEN c.set ELSE @]]
    /\ UNCHANGED <<handles, programs, builder, tasks, futures, pc, call>>

----------------------------------------------------------------------------
(* Specification of the buffer operations, from a fresh Instance.          *)

BufferInit ==
    /\ allocs = <<>>
    /\ handles = <<>>
    /\ programs = {}
    /\ builder = NoBuilder
    /\ tasks = <<>>
    /\ futures = <<>>
    /\ queue = <<>>
    /\ pc = "run"
    /\ call = NoCall

BufferNext ==
    \/ \E loc \in Locations, len \in 0..MaxLen, devOk \in BOOLEAN :
            BufferNew(loc, len, devOk)
    \/ \E data \in WriteData, devOk \in BOOLEAN :
            Len(data) <= MaxLen /\ FromVec(data, devOk)
    \/ \E i \in 1..Len(handles), s \in 0..MaxLen, e \in 0..(MaxLen + 1) : Sub(i, s, e)
    \/ \E i \in 1..Len(handles) : Clone(i)
    \/ \E i \in 1..Len(handles) : Read(i)
    \/ \E i \in 1..Len(handles), data \in WriteData : Write(i, data)

BufferSpec == BufferInit /\ [][BufferNext]_vars

----------------------------------------------------------------------------
(* Specification of the task protocol. It starts from the buffers of the   *)
(* tests of task.rs: a = from_vec([1, 2, ..]), b = new(n), a Gpu buffer g  *)
(* of the same length, and the views s = a.sub(0..n-1), t = b.sub(1..n);   *)
(* the two test shaders are compiled.                                      *)

TaskAllocs(n) ==
    <<[loc |-> "Cpu", data |-> Ramp(1, n)],
      CreateVkBuffer("Cpu", n),
      CreateVkBuffer("Gpu", n)>>

TaskHandles(n) ==
    <<[alloc |-> 1, off |-> 0, len |-> n, loc |-> "Cpu"],
      [alloc |-> 2, off |-> 0, len |-> n, loc |-> "Cpu"],
      [alloc |-> 3, off |-> 0, len |-> n, loc |-> "Gpu"],
      Slice([alloc |-> 1, off |-> 0, len |-> n, loc |-> "Cpu"], 0, n - 1),
      Slice([alloc |-> 2, off |-> 0, len |-> n, loc |-> "Cpu"], 1, n)>>

\* the copies the callers record: a->b, a->g, g->b, s->b (unequal lengths),
\* s->t (between views), a->s (overlapping)
CopyPairs == {<<1, 2>>, <<1, 3>>, <<3, 2>>, <<4, 2>>, <<4, 5>>, <<1, 4>>}

\* the bindings vectors the callers pass: [a.bind(0)], [a.bind(1)], [],
\* [a.bind(0), b.bind(1)]
BindingLists == {<< <<0, 1>> >>, << <<1, 1>> >>, <<>>, << <<0, 1>>, <<1, 2>> >>}

\* the data the callers write between submissions (tests::copy_buffer_twice
\* rewrites the source a), and the handles they write it through: a and s
TaskData == {Ramp(5, MaxLen)}

WriteTargets == {1, 4}

Init ==
    /\ \E n \in 2..MaxLen :
          /\ allocs = TaskAllocs(n)
          /\ handles = TaskHandles(n)
    /\ programs = {"doubler", "nobind"}
    /\ builder = NoBuilder
    /\ tasks = <<>>
    /\ futures = <<>>
    /\ queue = <<>>
    /\ pc = "run"
    /\ call = NoCall

Next ==
    \/ \E i \in 1..Len(handles) : Read(i)
    \/ \E i \in WriteTargets, data \in TaskData : Write(i, data)
    \/ BuilderNew
    \/ \E p \in CopyPairs : CopyBuffer(p[1], p[2])
    \/ \E prog \in programs, binds \in BindingLists :
            RunProgram(prog, WgOf(handles[1].len), binds)
    \/ Build
    \/ \E t \in 1..Len(tasks) : Submit(t)
    \/ \E f \in 1..Len(futures) : Wait(f)
    \/ WaitReturn
    \/ \E f \in 1..Len(futures) : FutureDrop(f)
    \/ DropReturn
    \/ DeviceExec

Spec == Init /\ [][Next]_vars

\* The task protocol with the progress the device and the blocked host make:
\* the queue executes the commands handed to it, and a host blocked in wait
\* or in the drop of a future resumes once the fence signalled or the queue
\* is idle.
FairSpec ==
    /\ Init
    /\ [][Next]_vars
    /\ WF_vars(DeviceExec)
    /\ WF_vars(WaitReturn)
    /\ WF_vars(DropReturn)

----------------------------------------------------------------------------
(* Specification of the combinators: the callers of the tests of task.rs,  *)
(* which record, then build_submit_and_wait, or build and submit_and_wait. *)

ComboNext ==
    \/ \E i \in 1..Len(handles) : Read(i)
    \/ \E i \in WriteTargets, data \in TaskData : Write(i, data)
    \/ BuilderNew
    \/ \E p \in CopyPairs : CopyBuffer(p[1], p[2])
    \/ \E prog \in programs, binds \in BindingLists :
            RunProgram(prog, WgOf(handles[1].len), binds)
    \/ Build
    \/ \E t \in 1..Len(tasks), subOk \in Answers, flushOk \in Answers :
            SubmitAndWait(t, subOk, flushOk)
    \/ \E buildOk \in Answers, subOk \in Answers, flushOk \in Answers :
            BuildSubmitAndWait(buildOk, subOk, flushOk)
    \/ WaitReturn
    \/ WaitFail
    \/ DeviceExec

ComboSpec == Init /\ [][ComboNext]_vars

----------------------------------------------------------------------------
(* Specification of the programs: the buffers of the task tests, no        *)
(* program compiled yet; programs are compiled and dispatches recorded.    *)

ProgramInit ==
    /\ \E n \in 2..MaxLen :
          /\ allocs = TaskAllocs(n)
          /\ handles = TaskHandles(n)
    /\ programs = {}
    /\ builder = NoBuilder
    /\ tasks = <<>>
    /\ futures = <<>>
    /\ queue = <<>>
    /\ pc = "run"
    /\ call = NoCall

ProgramNext ==
    \/ \E kind \in ShaderKinds, comp \in CompileAnswers, module \in Answers,
          entry \in Answers, layoutInfo \in Answers, layout \in Answers,
          pipeline \in Answers :
            ProgramNew(kind, comp, module, entry, layoutInfo, layout, pipeline)
    \/ BuilderNew
    \/ \E prog \in programs, wg_size \in WgSizes(handles[1].len),
          binds \in BindingLists :
            RunProgram(prog, wg_size, binds)
    \/ Build

ProgramSpec == ProgramInit /\ [][ProgramNext]_vars

\* the buffer of tests::subregion_read, from_vec(vec![1, 2, 3, 4]), with
\* views cut from it and from its views, read and written through
NestInit ==
    /\ allocs = <<[loc |-> "Cpu", data |-> Ramp(1, NestLen)]>>
    /\ handles = <<[alloc |-> 1, off |-> 0, len |-> NestLen, loc |-> "Cpu"]>>
    /\ programs = {}
    /\ builder = NoBuilder
    /\ tasks = <<>>
    /\ futures = <<>>
    /\ queue = <<>>
    /\ pc = "run"
    /\ call = NoCall

NestNext ==
    \/ \E i \in 1..Len(handles), s \in 0..NestLen, e \in 0..(NestLen + 1) : Sub(i, s, e)
    \/ \E i \in 1..Len(handles) : Read(i)
    \/ \E i \in 1..Len(handles) : Write(i, Ramp(5, handles[i].len))

NestSpec == NestInit /\ [][NestNext]_vars

----------------------------------------------------------------------------
(* Properties.                                                             *)

\* a step of the device (every host call rewrites call, the device never does)
IsDeviceStep ==
    /\ call' = call
    /\ queue # <<>>
    /\ Len(queue') = Len(queue)
    /\ queue'[1].ip = queue[1].ip + 1

\* a step that is the return of the host call op
Called(op) == call'.op = op /\ ~IsDeviceStep

\* C1: copy_buffer(a, b) with a.len() # b.len() returns UnequalBufferSize and
\* records no copy, so that no submission ever copies between views of
\* unequal length.
C1_CopyMismatchRejected ==
    /\ (call.op = "copy_buffer" /\ handles[call.h].len # handles[call.h2].len)
          => (call.res = "UnequalBufferSize" /\ ~builder.live)
    /\ \A k \in 1..Len(queue) : \A j \in 1..Len(queue[k].cmds) :
          queue[k].cmds[j].kind = "copy"
              => queue[k].cmds[j].src.len = queue[k].cmds[j].dst.len

\* C2: write(data) with data longer than the view returns Ok and stores the
\* first len() elements of data in the view.
C2_LongWriteTruncates ==
    (call.op = "write" /\ Len(call.data) > handles[call.h].len)
        => /\ call.res = "Ok"
           /\ ViewOf(allocs, handles[call.h]) = SubSeq(call.data, 1, handles[call.h].len)

\* C3: write(data) with data shorter than the view returns Ok, sets the first
\* data.len() elements of the view to data and leaves the others as they were.
C3_ShortWriteKeepsTail ==
    [][(Called("write") /\ Len(call'.data) < handles[call'.h].len)
          => LET h == handles[call'.h]
                 k == Len(call'.data)
             IN  /\ call'.res = "Ok"
                 /\ ViewOf(allocs', h) = call'.data \o SubSeq(ViewOf(allocs, h), k + 1, h.len)
                 /\ handles' = handles]_vars

C3_Witness ==
    /\ call.op = "write"
    /\ call.res = "Ok"
    /\ Len(call.data) = 1
    /\ handles[call.h].len = 2
    /\ ViewOf(allocs, handles[call.h]) = <<5, 2>>

\* C4: a sub-range view and a clone share the storage of the handle they were
\* made from, and a write through any handle changes exactly the written
\* elements for every handle onto them; read returns the elements the handle
\* denotes.
C4_SubShares ==
    Called("sub") /\ call'.res = "Ok"
        => LET parent == handles[call'.h]
               view == handles'[call'.h2]
           IN  /\ view.alloc = parent.alloc
               /\ ViewOf(allocs', view)
                    = SubSeq(ViewOf(allocs, parent), call'.data[1] + 1, call'.data[2])

C4_CloneShares ==
    Called("clone") => handles'[call'.h2] = handles[call'.h]

C4_WriteSeenByAll ==
    Called("write") /\ call'.res = "Ok"
        => LET w == handles[call'.h]
               n == Min(Len(call'.data), w.len)
           IN  \A j \in 1..Len(handles) : \A k \in 1..handles[j].len :
                  LET o == handles[j]
                      p == o.off + k
                  IN  ViewOf(allocs', o)[k] =
                         IF o.alloc = w.alloc /\ p > w.off /\ p <= w.off + n
                         THEN call'.data[p - w.off]
                         ELSE ViewOf(allocs, o)[k]

C4_ReadSeesStorage ==
    Called("read") /\ call'.res = "Ok"
        => call'.val = SubSeq(allocs[handles[call'.h].alloc].data,
                              handles[call'.h].off + 1,
                              handles[call'.h].off + handles[call'.h].len)

C4_Aliasing ==
    [][C4_SubShares /\ C4_CloneShares /\ C4_WriteSeenByAll /\ C4_ReadSeesStorage]_vars

\* s = b.sub(1..2); s.write(d): b reads as its old first element followed by d
C4_Witness ==
    /\ call.op = "write"
    /\ call.res = "Ok"
    /\ handles[call.h].off = 1
    /\ Len(call.data) = handles[call.h].len
    /\ \E j \in 1..Len(handles) :
          /\ handles[j].alloc = handles[call.h].alloc
          /\ handles[j].off = 0
          /\ handles[j].len = 2
          /\ ViewOf(allocs, handles[j]) = <<1>> \o call.data

\* C5: submit leaves the Task as it is, a Task can be submitted again, and
\* every executed command works on the contents the buffers hold when it
\* executes.
C5_SubmitKeepsTask ==
    Called("submit") => (tasks' = tasks /\ call'.res = "Ok" /\ UNCHANGED <<allocs, queue>>)

C5_FlushAccepted ==
    call.op \in {"wait", "drop"} => call.res \in {"blocked", "Ok"}

C5_ExecOnCurrentContents ==
    IsDeviceStep
        => LET sub == queue[1]
               c == sub.cmds[sub.ip + 1]
           IN  /\ c.kind = "copy"
                     => \A k \in 1..c.size :
                           allocs'[c.dst.alloc].data[c.dst.off + k]
                               = allocs[c.src.alloc].data[c.src.off + k]
               /\ (c.kind = "dispatch" /\ sub.prog = "doubler")
                     => \A b \in sub.set : b.slot = 0 =>
                           \A k \in 1..Min(c.wg[1], b.view.len) :
                               allocs'[b.view.alloc].data[b.view.off + k]
                                   = 2 * allocs[b.view.alloc].data[b.view.off + k]

C5_Resubmission ==
    /\ []C5_FlushAccepted
    /\ [][C5_SubmitKeepsTask /\ C5_ExecOnCurrentContents]_vars

\* the doubling task of tests::run_program_twice, submitted and waited twice
C5_Witness ==
    /\ Len(futures) = 2
    /\ futures[1].task = futures[2].task
    /\ futures[1].state = "done"
    /\ futures[2].state = "done"
    /\ \E j \in 1..Len(tasks[futures[1].task]) : tasks[futures[1].task][j].kind = "dispatch"
    /\ allocs[1].data = [i \in 1..Len(allocs[1].data) |-> 4 * i]

\* C6: when wait has returned Ok, every command of that submission has
\* executed: no unfinished submission of a waited future is on the queue.
C6_WaitCompletes ==
    /\ (call.op = "wait" /\ call.res = "Ok")
          => \A k \in 1..Len(queue) : queue[k].fut # call.h
    /\ \A f \in 1..Len(futures) :
          futures[f].state = "done"
              => \A k \in 1..Len(queue) : queue[k].fut = f => Finished(queue[k])

C6_Witness ==
    /\ call.op = "wait"
    /\ call.res = "Ok"
    /\ Len(tasks[futures[call.h].task]) >= 2
    /\ queue = <<>>
    /\ allocs[2].data = allocs[1].data

\* C7: when submit has returned Ok, the command sequence has been handed to
\* the device's queue (it is on the queue or has already executed).
C7_SubmitEnqueues ==
    (call.op = "submit" /\ call.res = "Ok")
        => \/ \E k \in 1..Len(queue) : queue[k].fut = call.h2
           \/ futures[call.h2].state = "done"

\* C8: the commands of one Task take effect in recorded order: after a Task
\* recording copy(a -> g), copy(g -> c) was submitted and waited, with g a Gpu
\* buffer, c holds a's contents, and a copy never changes its source.
C8_Staged(cs) ==
    /\ Len(cs) = 2
    /\ cs[1].kind = "copy"
    /\ cs[2].kind = "copy"
    /\ cs[1].dst = cs[2].src
    /\ allocs[cs[1].dst.alloc].loc = "Gpu"
    /\ allocs[cs[1].src.alloc].loc = "Cpu"
    /\ allocs[cs[2].dst.alloc].loc = "Cpu"
    /\ cs[1].src.alloc # cs[2].dst.alloc
    /\ cs[1].src.len = cs[1].dst.len
    /\ cs[2].src.len = cs[2].dst.len

C8_StagedCopyArrives ==
    (call.op = "wait" /\ call.res = "Ok" /\ C8_Staged(tasks[futures[call.h].task]))
        => LET cs == tasks[futures[call.h].task]
           IN  /\ ViewOf(allocs, cs[2].dst) = ViewOf(allocs, cs[1].src)
               /\ ViewOf(allocs, cs[1].dst) = ViewOf(allocs, cs[1].src)

C8_CopyKeepsSource ==
    (IsDeviceStep /\ queue[1].cmds[queue[1].ip + 1].kind = "copy")
        => LET c == queue[1].cmds[queue[1].ip + 1]
           IN  ViewOf(allocs', c.src) = ViewOf(allocs, c.src)

C8_InTaskOrder == []C8_StagedCopyArrives /\ [][C8_CopyKeepsSource]_vars

C8_Witness ==
    /\ call.op = "wait"
    /\ call.res = "Ok"
    /\ C8_Staged(tasks[futures[call.h].task])
    /\ allocs[2].data = allocs[1].data
    /\ allocs[3].data = allocs[1].data
    /\ allocs[1].data[1] # 0

\* C9: a submission depends on no other: flushing one future hands exactly
\* that submission to the queue and leaves every other pending, so a Task
\* submitted later can execute before one submitted earlier.
C9_NoCrossTaskDependency ==
    /\ \A k \in 1..Len(queue) :
          call.op \in {"wait", "drop"} /\ queue[k].fut = call.h
    /\ \A f \in 1..Len(futures) :
          futures[f].state = "flushed" => (call.op \in {"wait", "drop"} /\ call.h = f)

\* B = copy(g -> b) was submitted after A = copy(a -> b) and has executed
\* while A has not
C9_Witness ==
    /\ Len(futures) = 2
    /\ futures[1].state = "pending"
    /\ futures[2].state = "done"
    /\ futures[1].task # futures[2].task
    /\ \E i \in 1..Len(tasks[futures[1].task]), j \in 1..Len(tasks[futures[2].task]) :
          /\ tasks[futures[1].task][i].kind = "copy"
          /\ tasks[futures[2].task][j].kind = "copy"
          /\ tasks[futures[1].task][i].dst = tasks[futures[2].task][j].dst
          /\ tasks[futures[1].task][i].src # tasks[futures[2].task][j].src

\* C10: no public operation panics on the arguments a caller gives it.
C10_NoPanic == call.res # "panic" /\ pc # "panicked"

\* C11 (parts): recording needs an open builder and changes no built task;
\* build closes the builder and yields its sequence as a new task; submit
\* names a built task and leaves the builder alone; a built task never changes.
C11_RecordOnBuilder ==
    (Called("copy_buffer") \/ Called("run_program"))
        => /\ builder.live
           /\ tasks' = tasks
           /\ call'.res = "Ok" =>
                 /\ builder'.live
                 /\ Len(builder'.cmds) > Len(builder.cmds)
                 /\ SubSeq(builder'.cmds, 1, Len(builder.cmds)) = builder.cmds

C11_BuildConsumes ==
    Called("build")
        => /\ builder.live
           /\ ~builder'.live
           /\ tasks' = Append(tasks, builder.cmds)

C11_SubmitOnTask ==
    Called("submit")
        => /\ call'.h \in 1..Len(tasks)
           /\ builder' = builder
           /\ tasks' = tasks

C11_BuiltIsFinal ==
    /\ Len(tasks') >= Len(tasks)
    /\ \A t \in 1..Len(tasks) : tasks'[t] = tasks[t]

\* C11: a command sequence moves one way from Building to Built: copy_buffer
\* and run_program act on the open TaskBuilder only, submit on a built Task
\* only, build consumes the builder, and a built Task never changes again.
C11_BuildingToBuilt ==
    [][C11_RecordOnBuilder /\ C11_BuildConsumes /\ C11_SubmitOnTask
         /\ C11_BuiltIsFinal]_vars

\* a second builder records a command after a first sequence was built
C11_Witness ==
    /\ call.op \in {"copy_buffer", "run_program"}
    /\ call.res = "Ok"
    /\ Len(tasks) = 1
    /\ Len(tasks[1]) >= 1
    /\ builder.live
    /\ Len(builder.cmds) >= 1
    /\ builder.cmds # tasks[1]

\* the slots of a bindings vector that the program's shader does not declare
C12_UndeclaredSlots(prog, binds) ==
    {binds[k][1] : k \in 1..Len(binds)} \ DeclaredSlots(prog)

\* C12: run_program with a binding at a slot the shader does not declare
\* returns Err from run_program itself and closes the builder, so that no
\* built Task and no submission ever binds an undeclared slot.
C12_BindingMismatchAtBuild ==
    /\ (call.op = "run_program" /\ C12_UndeclaredSlots(call.prog, call.binds) # {})
          => /\ call.res \notin {"Ok", "panic"}
             /\ ~builder.live
             /\ pc # "panicked"
    /\ \A t \in 1..Len(tasks) : \A j \in 1..Len(tasks[t]) :
          tasks[t][j].kind = "bind_descriptors"
              => \A b \in tasks[t][j].set : b.slot \in DeclaredSlots(tasks[t][j - 1].prog)

\* the length a new / from_vec call asks for
C13_Requested(c) == IF c.op = "new" THEN c.data[1] ELSE Len(c.data)

\* C13: new(length) and from_vec(data) that succeed yield a buffer in the
\* requested location whose len() is the requested length, over a fresh
\* allocation of that many elements; a requested length of 0 fails with
\* LengthIsZero, whatever the device would answer, and creates no buffer.
C13_AllocationLength ==
    [][(Called("new") \/ Called("from_vec"))
          => LET n == C13_Requested(call')
             IN  /\ n = 0 => /\ call'.res = "LengthIsZero"
                             /\ allocs' = allocs
                             /\ handles' = handles
                 /\ n > 0 => call'.res \in {"Ok", "VulkanBufferCreationFailed"}
                 /\ call'.res = "Ok"
                       => /\ Len(handles') = Len(handles) + 1
                          /\ call'.h = Len(handles')
                          /\ BufLen(handles'[call'.h]) = n
                          /\ handles'[call'.h].loc = call'.prog
                          /\ handles'[call'.h].off = 0
                          /\ Len(allocs') = Len(allocs) + 1
                          /\ handles'[call'.h].alloc = Len(allocs')
                          /\ Len(allocs'[Len(allocs')].data) = n
                 /\ call'.res # "Ok" => (allocs' = allocs /\ handles' = handles)]_vars

\* Buffer<u32, Gpu>::new(2) succeeded
C13_Witness ==
    /\ call.op = "new"
    /\ call.res = "Ok"
    /\ call.prog = "Gpu"
    /\ call.data = <<2>>
    /\ BufLen(handles[call.h]) = 2

\* C14: on a buffer of length n, sub(start..end) with start < end <= n
\* succeeds with a view of length end - start; with start >= end it fails with
\* RangeIsEmpty, and otherwise with end > n it fails with RangeIsOutOfBounds;
\* a failed sub creates no view, and no sub changes a buffer or its contents.
C14_SubBounds ==
    [][Called("sub")
          => LET h == handles[call'.h]
                 n == BufLen(h)
                 start == call'.data[1]
                 end == call'.data[2]
             IN  /\ (start < end /\ end <= n)
                       => /\ call'.res = "Ok"
                          /\ Len(handles') = Len(handles) + 1
                          /\ call'.h2 = Len(handles')
                          /\ BufLen(handles'[call'.h2]) = end - start
                          /\ handles'[call'.h2].loc = h.loc
                 /\ start >= end => call'.res = "RangeIsEmpty"
                 /\ (start < end /\ end > n) => call'.res = "RangeIsOutOfBounds"
                 /\ call'.res # "Ok" => handles' = handles
                 /\ \A j \in 1..Len(handles) : handles'[j] = handles[j]
                 /\ allocs' = allocs]_vars

\* b.sub(1..2) on a buffer of length 2: a view of length 1
C14_Witness ==
    /\ call.op = "sub"
    /\ call.res = "Ok"
    /\ call.data = <<1, 2>>
    /\ BufLen(handles[call.h]) = 2
    /\ BufLen(handles[call.h2]) = 1

\* C15: a read() that directly follows a successful write(data) of exactly
\* len() elements through the same view (or a successful from_vec(data))
\* returns Ok with exactly data, in index order.
C15_WriteReadRoundTrip ==
    [][(/\ Called("read")
        /\ call.op \in {"write", "from_vec"}
        /\ call.res = "Ok"
        /\ handles[call'.h] = handles[call.h]
        /\ Len(call.data) = BufLen(handles[call.h]))
          => (call'.res = "Ok" /\ call'.val = call.data)]_vars

\* s = b.sub(1..2); s.write(vec![5]); s.read() == [5]
C15_Witness ==
    /\ call.op = "read"
    /\ call.res = "Ok"
    /\ handles[call.h].off = 1
    /\ call.val = <<5>>

\* C16 (parts): the executed copy between views of equal length, and the
\* contents after the wait on a Task that records exactly that copy.
C16_CopyStep ==
    (IsDeviceStep /\ queue[1].cmds[queue[1].ip + 1].kind = "copy"
                  /\ queue[1].cmds[queue[1].ip + 1].src.len
                        = queue[1].cmds[queue[1].ip + 1].dst.len)
        => LET c == queue[1].cmds[queue[1].ip + 1]
           IN  /\ ViewOf(allocs', c.dst) = ViewOf(allocs, c.src)
               /\ ViewOf(allocs', c.src) = ViewOf(allocs, c.src)
               /\ Len(allocs') = Len(allocs)
               /\ \A a \in 1..Len(allocs) :
                     /\ Len(allocs'[a].data) = Len(allocs[a].data)
                     /\ \A p \in 1..Len(allocs[a].data) :
                           (a # c.dst.alloc \/ p <= c.dst.off \/ p > c.dst.off + c.dst.len)
                               => allocs'[a].data[p] = allocs[a].data[p]

C16_CopyWaited ==
    (/\ call.op = "wait"
     /\ call.res = "Ok"
     /\ Len(tasks[futures[call.h].task]) = 1
     /\ tasks[futures[call.h].task][1].kind = "copy"
     /\ tasks[futures[call.h].task][1].src.len = tasks[futures[call.h].task][1].dst.len)
        => LET c == tasks[futures[call.h].task][1]
           IN  ViewOf(allocs, c.dst) = ViewOf(allocs, c.src)

\* C16: after a Task recording copy_buffer(src, dst) between views of equal
\* length was submitted and waited, dst holds the elements src held when the
\* copy executed, src is unchanged, and every element outside the dst view
\* (of dst's allocation and of any other) is unchanged.
C16_CopyEffectAndFrame == []C16_CopyWaited /\ [][C16_CopyStep]_vars

\* tests::copy_buffer_sub: the copy of s = a.sub(0..1) into t = b.sub(1..2)
\* was waited; b reads [0, a[0]]
C16_Witness ==
    /\ call.op = "wait"
    /\ call.res = "Ok"
    /\ Len(tasks[futures[call.h].task]) = 1
    /\ tasks[futures[call.h].task][1].kind = "copy"
    /\ tasks[futures[call.h].task][1].src.off = 0
    /\ tasks[futures[call.h].task][1].dst.off = 1
    /\ tasks[futures[call.h].task][1].src.len = 1
    /\ allocs[1].data[1] # 0
    /\ allocs[2].data = <<0, allocs[1].data[1]>>

\* a submission whose commands access the range of handle h was returned by
\* submit and has not been completed by a wait (or by the drop of its future)
C17_InFlight(h) ==
    \E f \in 1..Len(futures) :
        /\ futures[f].state \in {"pending", "flushed"}
        /\ \E j \in 1..Len(tasks[futures[f].task]) :
              \E v \in CmdViews(tasks[futures[f].task][j]) : Overlaps(v, h)

\* C17: while a submission that accesses a Cpu buffer is in flight, read() on
\* that buffer fails with VulkanBufferReadFailed; a read that succeeds returns
\* the buffer's contents, never a partly updated copy.
C17_ReadFailsInFlight ==
    call.op = "read"
        => /\ C17_InFlight(handles[call.h]) => call.res = "VulkanBufferReadFailed"
           /\ call.res = "Ok" => call.val = ViewOf(allocs, handles[call.h])

\* C18 (parts): what the first step of a combinator does for each answer of
\* the device to submit (s) and to the flush of the wait (fl), on the task t.
C18_SubmitWaitStep(t, s, fl) ==
    /\ s = 0 => /\ futures' = futures
                /\ queue' = queue
                /\ pc' = "run"
    /\ s = 1 => /\ Len(futures') = Len(futures) + 1
                /\ \A g \in 1..Len(futures) : futures'[g] = futures[g]
                /\ futures'[Len(futures')].task = t
                /\ call'.h = Len(futures')
    /\ (s = 1 /\ fl = 0) => /\ call'.res = "VulkanFutureFenceFlushFailed"
                            /\ queue' = queue
                            /\ pc' = "run"
    /\ (s = 1 /\ fl = 1) => /\ call'.res = "blocked"
                            /\ pc' = "waiting"
                            /\ Len(queue') = Len(queue) + 1
                            /\ \A k \in 1..Len(queue) : queue'[k] = queue[k]
                            /\ queue'[Len(queue')].fut = call'.h
                            /\ queue'[Len(queue')].cmds = tasks'[t]
                            /\ queue'[Len(queue')].ip = 0
    /\ allocs' = allocs

C18_SubmitAndWaitCall ==
    (Called("submit_and_wait") /\ pc = "run")
        => /\ C18_SubmitWaitStep(call'.h2, call'.data[1], call'.data[2])
           /\ call'.data[1] = 0 => call'.res = "TaskSubmissionFailed"
           /\ tasks' = tasks
           /\ builder' = builder

C18_BuildSubmitAndWaitCall ==
    (Called("build_submit_and_wait") /\ pc = "run")
        => /\ builder.live
           /\ ~builder'.live
           /\ call'.data[1] = 0 => /\ call'.res = "VulkanCommandBufferBuildFailed"
                                   /\ UNCHANGED <<tasks, futures, queue, allocs, pc>>
           /\ call'.data[1] = 1 => /\ tasks' = Append(tasks, builder.cmds)
                                   /\ C18_SubmitWaitStep(Len(tasks'), call'.data[2],
                                                         call'.data[3])
                                   /\ call'.data[2] = 0
                                         => call'.res = "TaskSubmissionFailed"

C18_CombinatorReturn ==
    (pc = "waiting" /\ pc' = "run"
        /\ call.op \in {"submit_and_wait", "build_submit_and_wait"})
        => /\ call'.op = call.op
           /\ call'.h = call.h
           /\ call'.res \in {"Ok", "WaitFailed"}
           /\ call'.res = "Ok"
                 => \E k \in 1..Len(queue) : queue[k].fut = call.h /\ Finished(queue[k])
           /\ \A k \in 1..Len(queue') : queue'[k].fut # call.h

\* C18: submit_and_wait calls submit once; when submit fails it returns that
\* error and waits on nothing; otherwise it waits on exactly the future that
\* submit returned and returns the result of that wait. build_submit_and_wait
\* does build, submit, wait in that order and stops at the first error.
C18_SubmitThenWait ==
    [][C18_SubmitAndWaitCall /\ C18_BuildSubmitAndWaitCall /\ C18_CombinatorReturn]_vars

\* a submit_and_wait whose wait failed, then a submit_and_wait that returned Ok
\* after the Task's copy executed
C18_Witness ==
    /\ call.op = "submit_and_wait"
    /\ call.res = "Ok"
    /\ Len(futures) = 2
    /\ futures[1].state = "failed"
    /\ futures[2].state = "done"
    /\ call.h = 2
    /\ \E j \in 1..Len(tasks[futures[2].task]) : tasks[futures[2].task][j].kind = "copy"
    /\ allocs[2].data = allocs[1].data

\* C19 (part): nothing takes back a submission: a future never leaves the
\* path pending -> flushed -> done, and a submission leaves the queue only
\* when all its commands have executed.
C19_NoCancel ==
    /\ \A f \in 1..Len(futures) :
          /\ Len(futures') >= f
          /\ futures'[f].task = futures[f].task
          /\ futures[f].state = "pending" => futures'[f].state \in {"pending", "flushed"}
          /\ futures[f].state = "flushed" => futures'[f].state \in {"flushed", "done"}
          /\ futures[f].state = "done" => futures'[f].state = "done"
    /\ \A k \in 1..Len(queue) :
          (\A j \in 1..Len(queue') : queue'[j].fut # queue[k].fut) => Finished(queue[k])
    /\ \A f \in 1..Len(futures) :
          (futures[f].state = "flushed" /\ futures'[f].state = "done")
              => \E k \in 1..Len(queue) : queue[k].fut = f /\ Finished(queue[k])

C20_HandleLocation ==
    \A i \in 1..Len(handles) : handles[i].loc = allocs[handles[i].alloc].loc

C20_Step ==
    /\ (Called("read") \/ Called("write"))
          => /\ handles[call'.h].loc = "Cpu"
             /\ allocs[handles[call'.h].alloc].loc = "Cpu"
    /\ ((Called("sub") /\ call'.res = "Ok") \/ Called("clone"))
          => /\ handles'[call'.h2].loc = handles[call'.h].loc
             /\ handles'[call'.h2].alloc = handles[call'.h].alloc
    /\ \A a \in 1..Len(allocs) :
          allocs[a].loc = "Gpu"
              => /\ allocs'[a].loc = "Gpu"
                 /\ allocs'[a].data # allocs[a].data => IsDeviceStep

\* C20: read and write exist on Cpu-located buffers only, and sub() and clone
\* of a Gpu buffer are Gpu-located again, so that the contents of a Gpu buffer
\* are changed by executed Task commands only, never by a host write, and are
\* never returned by a host read.
C20_LocationTypestate == []C20_HandleLocation /\ [][C20_Step]_vars

\* g = GpuBuffer::new(2); g.sub(1..2) is a Gpu view of g's allocation
C20_Witness ==
    /\ call.op = "sub"
    /\ call.res = "Ok"
    /\ handles[call.h].loc = "Gpu"
    /\ handles[call.h2].loc = "Gpu"
    /\ handles[call.h2].off = 1
    /\ allocs[handles[call.h2].alloc].loc = "Gpu"

\* the error Program::new is to return for the answers of its five steps
C21_FirstError(comp, module, entry, layout, pipeline) ==
    IF comp \notin {"Ok", "OkWithWarnings"} THEN "CompilationFailed"
    ELSE IF module = 0 THEN "VulkanShaderModuleCreationFailed"
    ELSE IF entry = 0 THEN "EntryPointNotFound"
    ELSE IF layout = 0 THEN "VulkanPipelineLayoutCreationFailed"
    ELSE IF pipeline = 0 THEN "VulkanPipelineCreationFailed"
    ELSE "Ok"

\* C21: Program::new returns the error of the first failing step, in the
\* order compile, create shader module, resolve entry point, create pipeline
\* layout, create pipeline; it returns a Program exactly when all five
\* succeed, and warnings alone never make it fail.
C21_ProgramErrorOrder ==
    call.op = "program_new"
        => /\ call.res = C21_FirstError(call.comp, call.data[1], call.data[2],
                                        Min(call.data[3], call.data[4]), call.data[5])
           /\ call.res = "Ok" => call.prog \in programs
           /\ pc # "panicked"

\* a bindings vector that does not exactly match the bindings the program's
\* shader declares, or any vector for a program that declares none
C22_Mismatch(prog, binds) ==
    \/ DeclaredSlots(prog) = {}
    \/ {binds[k][1] : k \in 1..Len(binds)} # DeclaredSlots(prog)
    \/ Len(binds) # Cardinality(DeclaredSlots(prog))

\* C22: run_program with a bindings list that does not exactly match the
\* program's declared bindings (one missing, one extra, or any list for a
\* program without bindings) returns VulkanDescriptorSetCreationFailed and
\* records nothing.
C22_BindingCountMismatch ==
    (call.op = "run_program" /\ C22_Mismatch(call.prog, call.binds))
        => /\ call.res = "VulkanDescriptorSetCreationFailed"
           /\ ~builder.live
           /\ pc # "panicked"

\* C23 as stated: build() on a builder to which nothing was appended fails
\* with VulkanCommandBufferBuildFailed and yields no Task.
C23_EmptyBuildRejected ==
    /\ call.op = "build" => (call.res = "Ok" => tasks[call.h] # <<>>)
    /\ \A t \in 1..Len(tasks) : tasks[t] # <<>>

\* C23 (parts, amended): the build of an empty builder, and the wait on a
\* submission of the empty Task.
C23_EmptyBuildStep ==
    (Called("build") /\ builder.cmds = <<>>)
        => /\ call'.res = "Ok"
           /\ tasks' = Append(tasks, <<>>)
           /\ call'.h = Len(tasks')

C23_EmptyTaskWaited ==
    (call.op \in {"wait", "drop"} /\ tasks[futures[call.h].task] = <<>>)
        => /\ call.res \in {"blocked", "Ok"}
           /\ \A k \in 1..Len(queue) : queue[k].fut = call.h => Finished(queue[k])

\* C23, amended: build() on a builder to which nothing was appended is not
\* refused: it yields a Task with an empty command sequence, and a submission
\* of that Task is accepted by wait and has nothing to execute.
C23_EmptyBuildYieldsTask == []C23_EmptyTaskWaited /\ [][C23_EmptyBuildStep]_vars

\* TaskBuilder::new(..).build(), submit, wait: Ok, and no buffer has changed
C23_Witness ==
    /\ call.op = "wait"
    /\ call.res = "Ok"
    /\ tasks[futures[call.h].task] = <<>>
    /\ futures[call.h].state = "done"
    /\ allocs[2].data = <<0, 0>>

\* C24 (parts): every handle has at least one element and lies inside its
\* allocation; no step changes an existing handle or the size of an
\* allocation.
C24_LenPositive ==
    \A i \in 1..Len(handles) :
        /\ BufLen(handles[i]) >= 1
        /\ handles[i].off >= 0
        /\ handles[i].off + BufLen(handles[i]) <= Len(allocs[handles[i].alloc].data)

C24_LenStable ==
    /\ \A i \in 1..Len(handles) :
          /\ Len(handles') >= i
          /\ BufLen(handles'[i]) = BufLen(handles[i])
    /\ \A a \in 1..Len(allocs) :
          /\ Len(allocs') >= a
          /\ Len(allocs'[a].data) = Len(allocs[a].data)

\* C24: every buffer handle, whether allocated, built by from_vec, cloned or
\* produced by sub at any depth, has len() >= 1, and no operation changes the
\* len() of a handle.
C24_LengthInvariant == []C24_LenPositive /\ [][C24_LenStable]_vars

\* a view of a view: b of length 2, s = b.sub(0..2), s.sub(1..2) of length 1
C24_Witness ==
    /\ Len(handles) = 3
    /\ call.op = "sub"
    /\ call.res = "Ok"
    /\ call.h = 2
    /\ call.h2 = 3
    /\ handles[2].alloc = handles[1].alloc
    /\ BufLen(handles[1]) = 2
    /\ BufLen(handles[2]) = 2
    /\ BufLen(handles[3]) = 1
    /\ handles[3].off = 1

\* a command sequence in which every dispatch is the third command of a
\* complete pipeline bind, descriptor-set bind, dispatch
C25_WholeDispatches(cmds) ==
    \A j \in 1..Len(cmds) :
        /\ cmds[j].kind = "dispatch"
              => /\ j >= 3
                 /\ cmds[j - 1].kind = "bind_descriptors"
                 /\ cmds[j - 2].kind = "bind_pipeline"
        /\ cmds[j].kind = "bind_pipeline"
              => /\ j + 2 <= Len(cmds)
                 /\ cmds[j + 1].kind = "bind_descriptors"
                 /\ cmds[j + 2].kind = "dispatch"
        /\ cmds[j].kind = "bind_descriptors"
              => /\ j >= 2
                 /\ j + 1 <= Len(cmds)
                 /\ cmds[j - 1].kind = "bind_pipeline"
                 /\ cmds[j + 1].kind = "dispatch"

C25_TasksWhole ==
    /\ \A t \in 1..Len(tasks) : C25_WholeDispatches(tasks[t])
    /\ C25_WholeDispatches(builder.cmds)
    /\ \A k \in 1..Len(queue) : C25_WholeDispatches(queue[k].cmds)

C25_FailureConsumes ==
    /\ ((Called("copy_buffer") \/ Called("run_program")) /\ call'.res # "Ok")
          => /\ ~builder'.live
             /\ builder'.cmds = <<>>
             /\ tasks' = tasks
             /\ futures' = futures
             /\ queue' = queue
    /\ (~builder.live /\ builder'.live) => builder'.cmds = <<>>
    /\ Called("build") => (builder.live /\ tasks' = Append(tasks, builder.cmds))

\* C25: when copy_buffer or run_program returns Err the builder is consumed
\* with the error: no Task is built from it and what it had recorded is never
\* submitted (a later builder starts empty); every built Task holds, for each
\* dispatch, the whole sequence pipeline bind, descriptor-set bind, dispatch.
C25_FailedStepKillsBuilder == []C25_TasksWhole /\ [][C25_FailureConsumes]_vars

\* a run_program failed at the dispatch after an earlier sequence with a whole
\* dispatch had been built
C25_Witness ==
    /\ call.op = "run_program"
    /\ call.res = "VulkanDispatchFailed"
    /\ ~builder.live
    /\ Len(tasks) = 1
    /\ Len(tasks[1]) = 3
    /\ tasks[1][3].kind = "dispatch"

\* the six limbs of the counts of the last run_program, as a triple of usize
C26_Given == <<Usize(call.data[1], call.data[2]), Usize(call.data[3], call.data[4]),
               Usize(call.data[5], call.data[6])>>

\* C26: for every caller-supplied (x, y, z), run_program either records a
\* dispatch whose three counts equal x, y and z exactly or returns an error;
\* a count of 2^32 or more is never recorded as its value modulo 2^32.
C26_CountsAsGiven ==
    (call.op = "run_program" /\ call.res = "Ok")
        => /\ builder.live
           /\ Len(builder.cmds) >= 3
           /\ LET d == builder.cmds[Len(builder.cmds)]
              IN  /\ d.kind = "dispatch"
                  /\ \A k \in 1..3 : /\ C26_Given[k].hi = 0
                                     /\ d.wg[k] = C26_Given[k].lo

\* the step is b.sub(a..c).sub(i..j) on a view p of b: the check of the range
\* is against p's own length, and the new view is elements a+i .. a+j of b
C27_NestedSub ==
    Called("sub")
        => LET p == handles[call'.h]
               i == call'.data[1]
               j == call'.data[2]
           IN  /\ call'.res = "Ok" <=> (i < j /\ j <= p.len)
               /\ (i < j /\ j > p.len) => /\ call'.res = "RangeIsOutOfBounds"
                                          /\ handles' = handles
               /\ call'.res = "Ok"
                     => LET n == handles'[call'.h2]
                        IN  /\ n.alloc = p.alloc
                            /\ n.off = p.off + i
                            /\ n.len = j - i
                            /\ n.off + n.len <= p.off + p.len
                            /\ ViewOf(allocs', n) = SubSeq(ViewOf(allocs, p), i + 1, j)
               /\ allocs' = allocs

\* a read or a write through a view touches the elements off+1 .. off+len of
\* the allocation (0-based: off .. off+len-1) and no others
C27_ViewAccess ==
    /\ (Called("read") /\ call'.res = "Ok")
          => LET h == handles[call'.h]
             IN  /\ call'.val = [k \in 1..h.len |-> allocs[h.alloc].data[h.off + k]]
                 /\ allocs' = allocs
    /\ (Called("write") /\ call'.res = "Ok")
          => LET h == handles[call'.h]
             IN  /\ \A a \in 1..Len(allocs) : a # h.alloc => allocs'[a] = allocs[a]
                 /\ Len(allocs'[h.alloc].data) = Len(allocs[h.alloc].data)
                 /\ \A q \in 1..Len(allocs[h.alloc].data) :
                       IF q > h.off /\ q <= h.off + h.len
                       THEN q - h.off <= Len(call'.data)
                               => allocs'[h.alloc].data[q] = call'.data[q - h.off]
                       ELSE allocs'[h.alloc].data[q] = allocs[h.alloc].data[q]

\* C27: b.sub(a..c).sub(i..j) is bounds-checked against the view's own length
\* c - a, not b.len(), and denotes exactly the elements a+i .. a+j of b;
\* reading or writing through the nested view touches those elements of b and
\* no others.
C27_NestedSubCompose == [][C27_NestedSub /\ C27_ViewAccess]_vars

\* b = [1, 2, 3, 4]; n = b.sub(1..4).sub(1..2); n.write(vec![5]): b is
\* [1, 2, 5, 4]
C27_Witness ==
    /\ Len(handles) = 3
    /\ handles[2].off = 1
    /\ handles[2].len = 3
    /\ handles[3].off = 2
    /\ handles[3].len = 1
    /\ call.op = "write"
    /\ call.h = 3
    /\ call.res = "Ok"
    /\ allocs[1].data = <<1, 2, 5, 4>>

====
